---- MODULE Spec2Model ----
(***************************************************************************)
(* Model of the weekly-notes plugin (src/main.ts): openWeeklyNote and its  *)
(* helpers, the delayed placeholder rewrite, and the daily-note            *)
(* auto-templater that reacts to the vault's 'create' event.               *)
(*                                                                         *)
(* Text (paths, file names, document contents) is a sequence of units.  A  *)
(* unit is a string that the code never looks inside: a path segment, the  *)
(* separator "/", the extension ".md", the token opener "!{{", a single    *)
(* "}", ":" or newline, a weekday name, a date-format string, or a run of  *)
(* ordinary characters.  Concatenation of text is \o on these sequences.   *)
(***************************************************************************)
EXTENDS Integers, Sequences, FiniteSets, TLC

(***************************************************************************)
(* Dates.  A date is its day number within the year 2024, 0 = 2024-01-01   *)
(* (a Monday).  The operators below are moment's, restricted to that year. *)
(***************************************************************************)
YearText == "2024"

\* Lengths of the months of 2024 (a leap year).
MonthLen == <<31, 29, 31, 30, 31, 30, 31, 31, 30, 31, 30, 31>>

RECURSIVE DaysBefore(_)
DaysBefore(m) == IF m = 1 THEN 0 ELSE DaysBefore(m - 1) + MonthLen[m - 1]

\* Month (1..12) and day of month of day number n.
MonthOf(n) == CHOOSE m \in 1..12 : DaysBefore(m) <= n /\ n < DaysBefore(m) + MonthLen[m]
DayOfMonth(n) == n - DaysBefore(MonthOf(n)) + 1

\* Date.getDay(): 0 = Sunday ... 6 = Saturday.
DayOfWeek(n) == (n + 1) % 7

\* moment#day(input): this.add(input - this.day(), 'd').
SetDay(n, dayIndex) == n + (dayIndex - DayOfWeek(n))

\* moment#add(1, 'week').
AddWeek(n) == n + 7

\* The locale's week rule: dow = first day of the week, doy = 7 + dow - (the
\* January day that the first week must contain).
LocaleDow(locale) == IF locale = "en" THEN 0 ELSE 1
LocaleDoy(locale) == IF locale = "en" THEN 6 ELSE 4

\* moment's firstWeekOffset(year, dow, doy) for 2024.
FirstWeekOffset(dow, doy) ==
    LET fwd   == 7 + dow - doy
        fwdlw == (7 + DayOfWeek(fwd - 1) - dow) % 7
    IN  fwd - fwdlw - 1

\* moment's weekOfYear(mom, dow, doy).week; n + 1 is the 1-based day of year.
LocaleWeek(n, locale) ==
    ((n + 1) - FirstWeekOffset(LocaleDow(locale), LocaleDoy(locale)) - 1) \div 7 + 1

Pad2(k) == IF k < 10 THEN "0" \o ToString(k) ELSE ToString(k)

\* The format strings the model uses.
DateFormats == {"YYYY-MM-DD", "gggg-[W]ww", "DD"}

\* moment#format(fmt) for one unit of a format string: a known format string
\* is expanded, any other unit (punctuation, white space) is copied.
FormatUnit(n, locale, u) ==
    CASE u = "YYYY-MM-DD" -> YearText \o "-" \o Pad2(MonthOf(n)) \o "-" \o Pad2(DayOfMonth(n))
      [] u = "gggg-[W]ww" -> YearText \o "-W" \o Pad2(LocaleWeek(n, locale))
      [] u = "DD"         -> Pad2(DayOfMonth(n))
      [] OTHER            -> u

\* moment#format(fmt) for a format string given as units.
FormatText(n, locale, fmt) == [i \in 1..Len(fmt) |-> FormatUnit(n, locale, fmt[i])]

(***************************************************************************)
(* Paths.                                                                  *)
(***************************************************************************)
RECURSIVE CollapseSlashes(_, _)
\* Drops every "/" that follows another "/" or starts the text.
CollapseSlashes(s, afterSlash) ==
    IF s = <<>> THEN <<>>
    ELSE IF Head(s) = "/"
         THEN IF afterSlash THEN CollapseSlashes(Tail(s), TRUE)
              ELSE <<"/">> \o CollapseSlashes(Tail(s), TRUE)
         ELSE <<Head(s)>> \o CollapseSlashes(Tail(s), FALSE)

\* A normalizePath that returns its argument.
normalizePathAsWritten(s) == s

\* obsidian's normalizePath: no duplicate, leading or trailing slashes; the
\* empty path is "/".
normalizePath(s) ==
    LET c == CollapseSlashes(s, TRUE)
        t == IF c # <<>> /\ c[Len(c)] = "/" THEN SubSeq(c, 1, Len(c) - 1) ELSE c
    IN  IF t = <<>> THEN <<"/">> ELSE t

\* Index of the last "/" of a path, 0 if there is none.
LastSlash(p) ==
    IF \E i \in 1..Len(p) : p[i] = "/"
    THEN CHOOSE i \in 1..Len(p) : p[i] = "/" /\ \A j \in (i + 1)..Len(p) : p[j] # "/"
    ELSE 0

\* TFile.extension, TFile.basename and TFile.parent.path of the file at p.
Extension(p) == IF p # <<>> /\ p[Len(p)] = ".md" THEN "md" ELSE ""
Basename(p) ==
    SubSeq(p, LastSlash(p) + 1, IF Extension(p) = "md" THEN Len(p) - 1 ELSE Len(p))
ParentPath(p) == IF LastSlash(p) = 0 THEN <<"/">> ELSE SubSeq(p, 1, LastSlash(p) - 1)

(***************************************************************************)
(* The placeholder rewriter.                                               *)
(***************************************************************************)
\* src/main.ts:198
days == <<"sunday", "monday", "tuesday", "wednesday", "thursday", "friday", "saturday">>

\* String.prototype.toLowerCase on the weekday spellings the model uses.
toLowerCase(u) ==
    CASE u = "Monday" -> "monday"
      [] u = "MONDAY" -> "monday"
      [] u = "Friday" -> "friday"
      [] u = "FRIDAY" -> "friday"
      [] OTHER        -> u

\* days.indexOf(name): 0-based, -1 when absent.
indexOf(name) ==
    IF \E k \in 1..7 : days[k] = name THEN (CHOOSE k \in 1..7 : days[k] = name) - 1 ELSE -1

\* Index of the first "}" of doc at or after position j, 0 if there is none.
NextBrace(doc, j) ==
    IF \E k \in j..Len(doc) : doc[k] = "}"
    THEN CHOOSE k \in j..Len(doc) : doc[k] = "}" /\ \A l \in j..(k - 1) : doc[l] # "}"
    ELSE 0

\* The regular expression
\*   /!{{(sunday|...|saturday):(.[^}]*)}}/gi
\* tried at position i of doc: the index of the last unit of the match, 0 if
\* it does not match there.  "." takes the unit at i+3 (anything but a line
\* break), [^}]* runs up to the next "}", and two "}" must follow.
MatchEnd(doc, i) ==
    IF /\ i + 3 <= Len(doc)
       /\ doc[i] = "!{{"
       /\ indexOf(toLowerCase(doc[i + 1])) # -1
       /\ doc[i + 2] = ":"
       /\ doc[i + 3] # "\n"
    THEN LET j == NextBrace(doc, i + 4)
         IN  IF j # 0 /\ j + 1 <= Len(doc) /\ doc[j + 1] = "}" THEN j + 1 ELSE 0
    ELSE 0

\* Group 2 of a match at i that ends at e.
MatchFormat(doc, i, e) == SubSeq(doc, i + 3, e - 2)

IsSpace(u) == u = " " \/ u = "\n"

RECURSIVE trimStart(_)
trimStart(s) == IF s # <<>> /\ IsSpace(Head(s)) THEN trimStart(Tail(s)) ELSE s

RECURSIVE trimEnd(_)
trimEnd(s) ==
    IF s # <<>> /\ IsSpace(s[Len(s)]) THEN trimEnd(SubSeq(s, 1, Len(s) - 1)) ELSE s

\* String.prototype.trim
trim(s) == trimEnd(trimStart(s))

\* a || b on strings: the empty string (and null, which the model also
\* writes <<>>) is falsy.
OrElse(a, b) == IF a # <<>> THEN a ELSE b

\* getDailyNoteLink without the test of plugin.enabled.
getDailyNoteLinkAlways(date, plugin, locale) ==
    LET dailyFormat == OrElse(plugin.format, <<"YYYY-MM-DD">>)
        dailyFolder == OrElse(plugin.folder, <<>>)
        dateString  == FormatText(date, locale, dailyFormat)
    IN  IF dailyFolder # <<>> THEN dailyFolder \o <<"/">> \o dateString
        ELSE dateString

\* getDailyNoteLink(date): null (<<>>) when the daily-notes plugin is absent
\* or disabled.  plugin = [enabled, format, folder, template].
getDailyNoteLink(date, plugin, locale) ==
    IF ~plugin.enabled THEN <<>>
    ELSE LET dailyFormat == OrElse(plugin.format, <<"YYYY-MM-DD">>)
             dailyFolder == OrElse(plugin.folder, <<>>)
             dateString  == FormatText(date, locale, dailyFormat)
         IN  IF dailyFolder # <<>> THEN dailyFolder \o <<"/">> \o dateString
             ELSE dateString

\* The replace callback of replaceDatePlaceholders: the replacement of one
\* match, and whether it sets `modified`.
Replacement(date, match, dayName, format, plugin, locale) ==
    LET dayIndex == indexOf(toLowerCase(dayName))
    IN  IF dayIndex = -1 THEN [text |-> match, modified |-> FALSE]
        ELSE LET targetDate == SetDay(date, dayIndex)
             IN  [text |-> IF trim(format) = <<"daily-note">>
                           THEN OrElse(getDailyNoteLink(targetDate, plugin, locale),
                                       FormatText(targetDate, locale, <<"YYYY-MM-DD">>))
                           ELSE FormatText(targetDate, locale, format),
                  modified |-> TRUE]

RECURSIVE ReplaceFrom(_, _, _, _, _)
\* content.replace(regex, callback) from position i on: leftmost matches,
\* one after the other, without overlap.
ReplaceFrom(doc, i, date, plugin, locale) ==
    IF i > Len(doc) THEN [content |-> <<>>, modified |-> FALSE]
    ELSE LET e == MatchEnd(doc, i)
         IN  IF e = 0
             THEN LET rest == ReplaceFrom(doc, i + 1, date, plugin, locale)
                  IN  [content |-> <<doc[i]>> \o rest.content, modified |-> rest.modified]
             ELSE LET r    == Replacement(date, SubSeq(doc, i, e), doc[i + 1],
                                          MatchFormat(doc, i, e), plugin, locale)
                      rest == ReplaceFrom(doc, e + 1, date, plugin, locale)
                  IN  [content  |-> r.text \o rest.content,
                       modified |-> r.modified \/ rest.modified]

(***************************************************************************)
(* State.                                                                  *)
(***************************************************************************)
VARIABLES
    settings,       \* the plugin's settings record {folder, template, dateFormat}
    dailyNotes,     \* the daily-notes core plugin: enabled, and its options
    templates,      \* the templates core plugin: [enabled]
    locale,         \* moment's locale
    today,          \* what moment() returns
    files,          \* the vault's files: path -> content
    folders,        \* the vault's folders
    active,         \* path of the file shown in the active view, None if none
    call,           \* the invocations of openWeeklyNote: position and locals
    obs,            \* per invocation: host operations performed, notices, logs
    timers,         \* the pending setTimeout callbacks
    events,         \* the vault 'create' events delivered to onFileCreate, by path
    faults,         \* number of host operations that have failed so far
    navigations,    \* number of times the user has changed the active view
    unhandled       \* a rejection escaped a timer callback

vars == <<settings, dailyNotes, templates, locale, today, files, folders, active,
          call, obs, timers, events, faults, navigations, unhandled>>

config == <<settings, dailyNotes, templates, locale, today>>

\* Number of things the user does in a behaviour: commands run, files
\* created, changes of the active view.
MaxUserActions == 2
\* Number of host operations that fail in a behaviour.
MaxFaults == 1

Calls == 1..MaxUserActions

None == <<>>
Root == <<"/">>

\* src/main.ts:9
DEFAULT_SETTINGS == [folder |-> <<>>, template |-> <<>>, dateFormat |-> <<"gggg-[W]ww">>]

\* Values of the settings the model draws from.
FolderSettings == {DEFAULT_SETTINGS.folder, <<"Weekly", "/">>}
TemplateSettings == {DEFAULT_SETTINGS.template, <<"T">>}
FormatSettings == {DEFAULT_SETTINGS.dateFormat}

\* States of the daily-notes core plugin the model draws from.
DailyNotesStates ==
    { [enabled |-> TRUE,  format |-> <<"YYYY-MM-DD">>, folder |-> <<"Daily">>, template |-> <<"T">>],
      [enabled |-> TRUE,  format |-> <<>>,             folder |-> <<>>,        template |-> <<"T">>],
      [enabled |-> FALSE, format |-> <<"YYYY-MM-DD">>, folder |-> <<"Daily">>, template |-> <<"T">>],
      [enabled |-> FALSE, format |-> <<"DD">>,         folder |-> <<"Daily">>, template |-> <<"T">>],
      [enabled |-> TRUE,  format |-> <<"DD">>,         folder |-> <<"Daily">>, template |-> <<>>] }

\* moment locales: "en" has weeks from Sunday, "en-gb" has ISO weeks.
Locales == {"en", "en-gb"}

\* 2024-03-03 (a Sunday) .. 2024-03-10 (the next Sunday).
Todays == 62..69

\* The dates a strict parse can return: 2024-02-01 .. 2024-04-30.
ParseDates == 31..120

\* Template contents the model draws from.
PlainDoc == <<"text">>
TokenDoc == <<"!{{", "monday", ":", "YYYY-MM-DD", "}", "}", "\n",
              "!{{", "Friday", ":", " ", "daily-note", "}", "}">>
DailyDoc == <<"!{{", "Friday", ":", " ", "daily-note", "}", "}", "text">>
EmptySpecDoc == <<"text", "!{{", "monday", ":", "}", "}">>
TemplateDocs == {PlainDoc, TokenDoc, DailyDoc, EmptySpecDoc}

\* Which of the paths T and T.md hold a file when the plugin is loaded.
TemplateVaults == {{}, {<<"T", ".md">>}, {<<"T">>, <<"T", ".md">>}}

\* The files the user may create, with their contents at creation.
UserCreations ==
    { [path |-> <<"Daily", "/", "2024-03-08", ".md">>, content |-> <<>>],
      [path |-> <<"Daily", "/", "2024-03-08", ".md">>, content |-> PlainDoc],
      [path |-> <<"2024-03-08", ".md">>,               content |-> <<>>],
      [path |-> <<"Daily", "/", "Untitled", ".md">>,   content |-> <<>>] }

IdleCall == [pc |-> "idle", date |-> 0, filename |-> <<>>, path |-> None,
             created |-> FALSE, templateFile |-> None, content |-> <<>>,
             result |-> "pending"]

NoObs == [createFolder |-> 0, create |-> 0, openFile |-> 0, insertTemplate |-> 0,
          read |-> 0, modify |-> 0, setTimeout |-> 0, setValue |-> 0,
          noticeCreated |-> 0, noticeNotFound |-> 0, noticeRaw |-> 0,
          noticeFailed |-> 0, errors |-> 0, warnings |-> 0, rejected |-> 0]

\* The plugin and the host's plugins are configured, on one of the given days.
Configured(folderSettings, templateSettings, dailyNotesStates, locales, dates) ==
    /\ settings \in [folder : folderSettings, template : templateSettings,
                     dateFormat : FormatSettings]
    /\ dailyNotes \in dailyNotesStates
    /\ templates \in [enabled : BOOLEAN]
    /\ locale \in locales
    /\ today \in dates

\* The vault when the plugin is loaded: template files only.
VaultLoaded(templateVaults, docs) ==
    /\ \E present \in templateVaults, doc \in docs : files = [p \in present |-> doc]
    /\ folders = {<<"Daily">>}
    /\ active = None

\* Nothing has run yet.
Quiet ==
    /\ call = [c \in Calls |-> IdleCall]
    /\ obs = [c \in Calls |-> NoObs]
    /\ timers = {}
    /\ events = [p \in {} |-> 0]
    /\ faults = 0
    /\ navigations = 0
    /\ unhandled = FALSE

\* The state after onload on Monday 2024-03-04, the daily-notes plugin
\* enabled and fully set up, with no template file or with both T and T.md.
Init ==
    /\ Configured({<<"Weekly", "/">>}, {<<"T">>},
                  {d \in DailyNotesStates : d.enabled /\ d.folder # <<>> /\ d.template # <<>>},
                  {"en"}, {63})
    /\ VaultLoaded({{}, {<<"T">>, <<"T", ".md">>}}, {TokenDoc})
    /\ Quiet

(***************************************************************************)
(* The host.                                                               *)
(***************************************************************************)
\* vault.getAbstractFileByPath(p): a TFile, a TFolder or null.
getAbstractFileByPath(p) ==
    IF p \in DOMAIN files THEN "file" ELSE IF p \in folders \/ p = Root THEN "folder" ELSE "null"

\* The map fs (the vault's files, the events) with p added and mapped to c.
WithFile(fs, p, c) == [q \in DOMAIN fs \cup {p} |-> IF q = p THEN c ELSE fs[q]]

\* workspace.getActiveViewOfType(MarkdownView) finds a view.
HasMarkdownView(a) == a # None /\ Extension(a) = "md"

\* The templates plugin's insertTemplate(templateFile): the template's text
\* goes into the editor of the active markdown view, if there is one.
InsertTemplate(fs, a, templateFile) ==
    IF HasMarkdownView(a) THEN [fs EXCEPT ![a] = @ \o fs[templateFile]] ELSE fs

\* The 'create' events of files the user created.
UserFiles == {p \in DOMAIN events : events[p].by = 0}

\* What the user has done so far.
UserActions == Cardinality({c \in Calls : call[c].pc # "idle"}) + Cardinality(UserFiles)
               + navigations

\* A host operation may fail while the fault budget lasts.
MayFail == faults < MaxFaults

(***************************************************************************)
(* The daily-note auto-templater.                                          *)
(***************************************************************************)
\* A parse that accepts every name.
isValidAnyName(name, format) == TRUE

\* moment(name, format, true).isValid(): name is exactly some date in that
\* format.
isValidStrict(name, format) ==
    \E d \in ParseDates : FormatText(d, locale, format) = name

\* plugin.folder is set and the file's parent is not that folder.
OutsideDailyFolder(p, plugin) ==
    LET dailyFolder == OrElse(plugin.folder, <<>>)
    IN  dailyFolder # <<>> /\ ParentPath(p) # normalizePath(dailyFolder)

\* DailyTemplateFile looking only at the path as written.
DailyTemplateFileLiteral(templatePath) ==
    LET literal == normalizePath(templatePath)
    IN  IF getAbstractFileByPath(literal) = "file" THEN literal ELSE None

\* The template file onFileCreate settles on: the path with ".md" appended
\* if anything is there, else the path as written; None if it is no file.
DailyTemplateFile(templatePath) ==
    LET withMd  == normalizePath(templatePath \o <<".md">>)
        literal == normalizePath(templatePath)
        found   == IF getAbstractFileByPath(withMd) # "null" THEN withMd
                   ELSE IF getAbstractFileByPath(literal) # "null" THEN literal
                   ELSE None
    IN  IF found # None /\ getAbstractFileByPath(found) = "file" THEN found ELSE None

\* onFileCreate without the test of file.stat.size.
onFileCreateAnySize(p, size) ==
    IF Extension(p) # "md" THEN None
    ELSE IF ~dailyNotes.enabled THEN None
    ELSE IF dailyNotes.template = <<>> THEN None
    ELSE IF ~isValidStrict(Basename(p), OrElse(dailyNotes.format, <<"YYYY-MM-DD">>)) THEN None
    ELSE IF OutsideDailyFolder(p, dailyNotes) THEN None
    ELSE IF DailyTemplateFile(dailyNotes.template) = None THEN None
    ELSE IF ~templates.enabled THEN None
    ELSE DailyTemplateFile(dailyNotes.template)

\* onFileCreate(file) for the file at p created with `size` units of content:
\* the template file whose insertion it schedules, None if it schedules none.
onFileCreate(p, size) ==
    IF Extension(p) # "md" \/ size > 0 THEN None
    ELSE IF ~dailyNotes.enabled THEN None
    ELSE IF dailyNotes.template = <<>> THEN None
    ELSE IF ~isValidStrict(Basename(p), OrElse(dailyNotes.format, <<"YYYY-MM-DD">>)) THEN None
    ELSE IF OutsideDailyFolder(p, dailyNotes) THEN None
    ELSE IF DailyTemplateFile(dailyNotes.template) = None THEN None
    ELSE IF ~templates.enabled THEN None
    ELSE DailyTemplateFile(dailyNotes.template)

Timer(kind, id, date, note, template) ==
    [kind |-> kind, id |-> id, date |-> date, note |-> note, template |-> template]

\* The vault emits 'create' for the file at p: the event is recorded, and the
\* handler runs and may set its 200 ms timer.  `by` is the invocation of
\* openWeeklyNote that created the file, 0 for the user.
EmitCreate(p, size, by) ==
    LET tf == onFileCreate(p, size)
    IN  /\ events' = WithFile(events, p, [size |-> size, by |-> by,
                                          scheduled |-> IF tf = None THEN 0 ELSE 1,
                                          inserts |-> 0])
        /\ timers' = IF tf = None THEN timers
                     ELSE timers \cup {Timer("insert", 0, 0, p, tf)}

(***************************************************************************)
(* openWeeklyNote.                                                         *)
(***************************************************************************)
\* The catch block of openWeeklyNote: one notice, one console.error, and the
\* promise resolves.
\* openWeeklyNote without its try/catch: the rejection escapes.
CatchNothing(c, seen) ==
    /\ call' = [call EXCEPT ![c].pc = "done", ![c].result = "rejected"]
    /\ obs' = seen

\* `seen` is obs with the rejection that led here.
Catch(c, seen) ==
    /\ call' = [call EXCEPT ![c].pc = "done", ![c].result = "resolved"]
    /\ obs' = [seen EXCEPT ![c].noticeFailed = @ + 1, ![c].errors = @ + 1]

\* obs after the host operation op, awaited by invocation c, has rejected.
Rejected(c, op) == [obs EXCEPT ![c][op] = @ + 1, ![c].rejected = @ + 1]

\* The synchronous part of ensureFolderExists(folder): TRUE if it goes on to
\* call vault.createFolder.
NeedsCreateFolder(folder) ==
    LET normalizedFolder == normalizePath(folder)
    IN  /\ normalizedFolder # Root
        /\ getAbstractFileByPath(normalizedFolder) = "null"

\* AfterLookup without the lookup: the note is created on every run.
AfterLookupAlwaysCreate(path, folder) ==
    IF NeedsCreateFolder(folder) THEN "folder" ELSE "create"

\* AfterLookup that returns when anything is at the path.
AfterLookupNoReopen(path, folder) ==
    IF getAbstractFileByPath(path) # "null" THEN "done"
    ELSE IF NeedsCreateFolder(folder) THEN "folder"
    ELSE "create"

\* Where openWeeklyNote goes after looking the path up: on to opening the
\* file found there, out if a folder is there, else into ensureFolderExists
\* and vault.create.
AfterLookup(path, folder) ==
    LET file == getAbstractFileByPath(path)
    IN  IF file = "file" THEN "open"
        ELSE IF file = "folder" THEN "done"
        ELSE IF NeedsCreateFolder(folder) THEN "folder"
        ELSE "create"

\* openWeeklyNote(date) up to its first await.
Start(c, date) ==
    /\ call[c].pc = "idle"
    /\ UserActions < MaxUserActions
    /\ \A b \in Calls : b < c => call[b].pc # "idle"
    /\ LET filename == FormatText(date, locale, settings.dateFormat)
           folder   == settings.folder
           path     == normalizePath(folder \o <<"/">> \o filename \o <<".md">>)
           next     == AfterLookup(path, folder)
       IN  call' = [call EXCEPT ![c] = [@ EXCEPT !.pc = next, !.date = date,
                                                 !.filename = filename, !.path = path,
                                                 !.result = IF next = "done" THEN "resolved"
                                                            ELSE "pending"]]
    /\ UNCHANGED <<config, files, folders, active, obs, timers, events, faults, navigations, unhandled>>

\* CreateFolder without the try/catch of ensureFolderExists: a rejection
\* reaches the catch block of openWeeklyNote.
CreateFolderUncaught(c) ==
    /\ call[c].pc = "folder"
    /\ LET normalizedFolder == normalizePath(settings.folder)
       IN  \/ /\ getAbstractFileByPath(normalizedFolder) = "null"
              /\ folders' = folders \cup {normalizedFolder}
              /\ obs' = [obs EXCEPT ![c].createFolder = @ + 1]
              /\ call' = [call EXCEPT ![c].pc = "create"]
              /\ faults' = faults
           \/ /\ getAbstractFileByPath(normalizedFolder) # "null" \/ MayFail
              /\ folders' = folders
              /\ Catch(c, Rejected(c, "createFolder"))
              /\ faults' = IF getAbstractFileByPath(normalizedFolder) # "null"
                           THEN faults ELSE faults + 1
    /\ UNCHANGED <<config, navigations, files, active, timers, events, unhandled>>

\* vault.createFolder(normalizedFolder) settles; a rejection is caught inside
\* ensureFolderExists and logged with console.warn.
CreateFolder(c) ==
    /\ call[c].pc = "folder"
    /\ LET normalizedFolder == normalizePath(settings.folder)
       IN  \/ /\ getAbstractFileByPath(normalizedFolder) = "null"
              /\ folders' = folders \cup {normalizedFolder}
              /\ obs' = [obs EXCEPT ![c].createFolder = @ + 1]
              /\ faults' = faults
           \/ /\ getAbstractFileByPath(normalizedFolder) # "null" \/ MayFail
              /\ folders' = folders
              /\ obs' = [obs EXCEPT ![c].createFolder = @ + 1, ![c].warnings = @ + 1]
              /\ faults' = IF getAbstractFileByPath(normalizedFolder) # "null"
                           THEN faults ELSE faults + 1
    /\ call' = [call EXCEPT ![c].pc = "create"]
    /\ UNCHANGED <<config, navigations, files, active, timers, events, unhandled>>

\* A host that accepts every vault.create.
CreateRejectedNever(path) == FALSE

\* The host rejects vault.create(path, '') when something is at the path
\* already or the parent folder is missing.
CreateRejected(path) ==
    \/ getAbstractFileByPath(path) # "null"
    \/ getAbstractFileByPath(ParentPath(path)) # "folder"

\* vault.create(path, '') settles.
Create(c) ==
    /\ call[c].pc = "create"
    /\ \/ /\ ~CreateRejected(call[c].path)
          /\ files' = WithFile(files, call[c].path, <<>>)
          /\ EmitCreate(call[c].path, 0, c)
          /\ call' = [call EXCEPT ![c].pc = "open", ![c].created = TRUE]
          /\ obs' = [obs EXCEPT ![c].create = @ + 1, ![c].noticeCreated = @ + 1]
          /\ faults' = faults
       \/ /\ CreateRejected(call[c].path) \/ MayFail
          /\ Catch(c, Rejected(c, "create"))
          /\ faults' = IF CreateRejected(call[c].path) THEN faults ELSE faults + 1
          /\ UNCHANGED <<files, events, timers>>
    /\ UNCHANGED <<config, navigations, folders, active, unhandled>>

\* ResolveTemplate with the two lookups in the other order.
ResolveTemplateMdFirst(template) ==
    LET literal == normalizePath(template)
        withMd  == normalizePath(template \o <<".md">>)
    IN  IF getAbstractFileByPath(withMd) # "null"
        THEN [path |-> withMd, kind |-> getAbstractFileByPath(withMd)]
        ELSE [path |-> literal, kind |-> getAbstractFileByPath(literal)]

\* The template lookup of applyTemplate: the path as written first, then the
\* path with ".md" appended.  kind is what was found there.
ResolveTemplate(template) ==
    LET literal == normalizePath(template)
        withMd  == normalizePath(template \o <<".md">>)
    IN  IF getAbstractFileByPath(literal) # "null"
        THEN [path |-> literal, kind |-> getAbstractFileByPath(literal)]
        ELSE [path |-> withMd, kind |-> getAbstractFileByPath(withMd)]

\* ShouldApplyTemplate without the `created` test.
ShouldApplyTemplateAnyNote(c) == settings.template # <<>>

\* The condition under which openWeeklyNote calls applyTemplate.
ShouldApplyTemplate(c) == call[c].created /\ settings.template # <<>>

\* leaf.openFile(file) settles; on success openWeeklyNote goes on, for a note
\* it has just created and with a template set, into applyTemplate up to that
\* function's first await.
OpenFile(c) ==
    /\ call[c].pc = "open"
    /\ \/ /\ active' = call[c].path
          /\ faults' = faults
          /\ IF ShouldApplyTemplate(c)
             THEN LET t == ResolveTemplate(settings.template)
                  IN  IF t.kind = "null"
                      THEN /\ call' = [call EXCEPT ![c].pc = "done", ![c].result = "resolved"]
                           /\ obs' = [obs EXCEPT ![c].openFile = @ + 1,
                                                 ![c].noticeNotFound = @ + 1]
                      ELSE IF t.kind # "file"
                      THEN /\ call' = [call EXCEPT ![c].pc = "done", ![c].result = "resolved"]
                           /\ obs' = [obs EXCEPT ![c].openFile = @ + 1]
                      ELSE /\ call' = [call EXCEPT ![c].pc = IF templates.enabled THEN "insert"
                                                             ELSE "read",
                                                   ![c].templateFile = t.path]
                           /\ obs' = [obs EXCEPT ![c].openFile = @ + 1]
             ELSE /\ call' = [call EXCEPT ![c].pc = "done", ![c].result = "resolved"]
                  /\ obs' = [obs EXCEPT ![c].openFile = @ + 1]
       \/ /\ MayFail
          /\ Catch(c, Rejected(c, "openFile"))
          /\ faults' = faults + 1
          /\ active' = active
    /\ UNCHANGED <<config, navigations, files, folders, timers, events, unhandled>>

\* ScheduleRewrite with a callback that reads the clock when it runs.
ScheduleRewriteToday(c) ==
    timers' = timers \cup {Timer("rewrite", c, today, call[c].path, None)}

\* The tail of applyTemplate: setTimeout(() => replaceDatePlaceholders(date), 100).
ScheduleRewrite(c) ==
    timers' = timers \cup {Timer("rewrite", c, call[c].date, call[c].path, None)}

\* templatesPlugin.instance.insertTemplate(templateFile) settles.
Insert(c) ==
    /\ call[c].pc = "insert"
    /\ \/ /\ files' = InsertTemplate(files, active, call[c].templateFile)
          /\ ScheduleRewrite(c)
          /\ call' = [call EXCEPT ![c].pc = "done", ![c].result = "resolved"]
          /\ obs' = [obs EXCEPT ![c].insertTemplate = @ + 1, ![c].setTimeout = @ + 1]
          /\ faults' = faults
       \/ /\ MayFail
          /\ Catch(c, Rejected(c, "insertTemplate"))
          /\ faults' = faults + 1
          /\ UNCHANGED <<files, timers>>
    /\ UNCHANGED <<config, navigations, folders, active, events, unhandled>>

\* vault.read(templateFile) settles.
Read(c) ==
    /\ call[c].pc = "read"
    /\ \/ /\ call' = [call EXCEPT ![c].pc = "modify",
                                  ![c].content = files[call[c].templateFile]]
          /\ obs' = [obs EXCEPT ![c].read = @ + 1]
          /\ faults' = faults
       \/ /\ MayFail
          /\ Catch(c, Rejected(c, "read"))
          /\ faults' = faults + 1
    /\ UNCHANGED <<config, navigations, files, folders, active, timers, events, unhandled>>

\* Modify without the setTimeout that follows the raw copy.
ModifyNoRewrite(c) ==
    /\ call[c].pc = "modify"
    /\ \/ /\ files' = [files EXCEPT ![call[c].path] = call[c].content]
          /\ timers' = timers
          /\ call' = [call EXCEPT ![c].pc = "done", ![c].result = "resolved"]
          /\ obs' = [obs EXCEPT ![c].modify = @ + 1, ![c].noticeRaw = @ + 1]
          /\ faults' = faults
       \/ /\ MayFail
          /\ Catch(c, Rejected(c, "modify"))
          /\ faults' = faults + 1
          /\ UNCHANGED <<files, timers>>
    /\ UNCHANGED <<config, navigations, folders, active, events, unhandled>>

\* vault.modify(file, content) settles.
Modify(c) ==
    /\ call[c].pc = "modify"
    /\ \/ /\ files' = [files EXCEPT ![call[c].path] = call[c].content]
          /\ ScheduleRewrite(c)
          /\ call' = [call EXCEPT ![c].pc = "done", ![c].result = "resolved"]
          /\ obs' = [obs EXCEPT ![c].modify = @ + 1, ![c].noticeRaw = @ + 1,
                                ![c].setTimeout = @ + 1]
          /\ faults' = faults
       \/ /\ MayFail
          /\ Catch(c, Rejected(c, "modify"))
          /\ faults' = faults + 1
          /\ UNCHANGED <<files, timers>>
    /\ UNCHANGED <<config, navigations, folders, active, events, unhandled>>

(***************************************************************************)
(* Timer callbacks.                                                        *)
(***************************************************************************)
\* replaceDatePlaceholders calling editor.setValue whatever `modified` is.
replaceDatePlaceholdersAlwaysSet(content, date) ==
    [content |-> ReplaceFrom(content, 1, date, dailyNotes, locale).content, setValue |-> TRUE]

\* replaceDatePlaceholders(date) on the document text: the new text and
\* whether editor.setValue is called with it.
replaceDatePlaceholders(content, date) ==
    LET r == ReplaceFrom(content, 1, date, dailyNotes, locale)
    IN  [content |-> IF r.modified THEN r.content ELSE content, setValue |-> r.modified]

\* The 100 ms timer of applyTemplate fires.
FireRewrite(t) ==
    /\ t \in timers /\ t.kind = "rewrite"
    /\ timers' = timers \ {t}
    /\ IF HasMarkdownView(active)
       THEN LET r == replaceDatePlaceholders(files[active], t.date)
            IN  /\ files' = [files EXCEPT ![active] = r.content]
                /\ obs' = [obs EXCEPT ![t.id].setValue = @ + (IF r.setValue THEN 1 ELSE 0)]
       ELSE UNCHANGED <<files, obs>>
    /\ UNCHANGED <<config, folders, active, call, events, faults, navigations, unhandled>>

\* The 200 ms timer of onFileCreate fires: insertTemplate(templateFile); a
\* rejection has no handler.
FireInsert(t) ==
    /\ t \in timers /\ t.kind = "insert"
    /\ timers' = timers \ {t}
    /\ events' = [events EXCEPT ![t.note].inserts = @ + 1]
    /\ \/ /\ files' = InsertTemplate(files, active, t.template)
          /\ UNCHANGED <<faults, unhandled>>
       \/ /\ MayFail
          /\ faults' = faults + 1
          /\ unhandled' = TRUE
          /\ files' = files
    /\ UNCHANGED <<config, navigations, folders, active, call, obs>>

(***************************************************************************)
(* The user.                                                               *)
(***************************************************************************)
\* The user creates a file; the vault emits 'create'.
UserCreate(p, content) ==
    /\ UserActions < MaxUserActions
    /\ getAbstractFileByPath(p) = "null"
    /\ getAbstractFileByPath(ParentPath(p)) = "folder"
    /\ files' = WithFile(files, p, content)
    /\ EmitCreate(p, Len(content), 0)
    /\ UNCHANGED <<config, folders, active, call, obs, faults, navigations, unhandled>>

\* The user brings another note to the active view, or leaves no markdown
\* view active.
UserNavigate(p) ==
    /\ UserActions < MaxUserActions
    /\ p # active
    /\ p = None \/ (p \in DOMAIN files /\ Extension(p) = "md")
    /\ active' = p
    /\ navigations' = navigations + 1
    /\ UNCHANGED <<config, files, folders, call, obs, timers, events, faults, unhandled>>

(***************************************************************************)
(* Specifications.                                                         *)
(***************************************************************************)
\* The commands: 'Open Weekly Note' (and the ribbon icon and the URI action)
\* pass moment(), 'Open Next Week's Note' passes moment().add(1, 'week').
CommandDates == {today, AddWeek(today)}

Fire == \E t \in timers : FireRewrite(t) \/ FireInsert(t)

Next ==
    \/ \E c \in Calls, d \in CommandDates : Start(c, d)
    \/ \E c \in Calls : CreateFolder(c)
    \/ \E c \in Calls : Create(c)
    \/ \E c \in Calls : OpenFile(c)
    \/ \E c \in Calls : Insert(c)
    \/ \E c \in Calls : Read(c)
    \/ \E c \in Calls : Modify(c)
    \/ \E t \in timers : FireRewrite(t)
    \/ \E t \in timers : FireInsert(t)
    \/ \E f \in UserCreations : UserCreate(f.path, f.content)
    \/ \E p \in DOMAIN files \cup {None} : UserNavigate(p)

Spec == Init /\ [][Next]_vars

\* Timers always fire.
FairSpec == Spec /\ WF_vars(Fire)

\* The command is run again only after the previous run has completed, and
\* always for today.
StartAfter(c) ==
    /\ \A b \in Calls : call[b].pc \in {"idle", "done"}
    /\ Start(c, today)

SeqNext ==
    \/ \E c \in Calls : StartAfter(c)
    \/ \E c \in Calls : CreateFolder(c)
    \/ \E c \in Calls : Create(c)
    \/ \E c \in Calls : OpenFile(c)
    \/ \E c \in Calls : Insert(c)
    \/ \E c \in Calls : Read(c)
    \/ \E c \in Calls : Modify(c)
    \/ \E t \in timers : FireRewrite(t)
    \/ \E t \in timers : FireInsert(t)
    \/ \E f \in UserCreations : UserCreate(f.path, f.content)
    \/ \E p \in DOMAIN files \cup {None} : UserNavigate(p)

\* As Init, for every folder and template setting, on a Monday and on a
\* Sunday.
SeqInit ==
    /\ Configured(FolderSettings, TemplateSettings,
                  {d \in DailyNotesStates : d.enabled /\ d.folder # <<>> /\ d.template # <<>>},
                  {"en"}, {63, 69})
    /\ VaultLoaded(TemplateVaults, {TokenDoc})
    /\ Quiet

SeqSpec == SeqInit /\ [][SeqNext]_vars

\* One run of a command, the user doing nothing else, for every setting,
\* template and day the model draws from.
CommandInit ==
    /\ Configured(FolderSettings, TemplateSettings, DailyNotesStates, Locales, Todays)
    /\ VaultLoaded(TemplateVaults, TemplateDocs)
    /\ Quiet

CommandNext ==
    \/ \E d \in CommandDates : Start(1, d)
    \/ CreateFolder(1)
    \/ Create(1)
    \/ OpenFile(1)
    \/ Insert(1)
    \/ Read(1)
    \/ Modify(1)
    \/ \E t \in timers : FireRewrite(t)

CommandSpec == CommandInit /\ [][CommandNext]_vars

\* As SeqInit on Monday 2024-03-04, the template plain or with one token.
FairCommandInit ==
    /\ Configured(FolderSettings, TemplateSettings,
                  {d \in DailyNotesStates : d.enabled /\ d.folder # <<>> /\ d.template # <<>>},
                  {"en"}, {63})
    /\ VaultLoaded(TemplateVaults, {PlainDoc, DailyDoc})
    /\ Quiet

\* One run of a command; host operations settle and timers fire.
FairCommandSpec == FairCommandInit /\ [][CommandNext]_vars /\ WF_vars(CommandNext)

\* A weekday token whose spec is empty, followed by one more "}".
BraceSpecDoc == <<"text", "!{{", "monday", ":", "}", "}", "}">>

\* Documents that probe the shape of the token.
RegexDocs == {PlainDoc, TokenDoc, EmptySpecDoc, BraceSpecDoc}

\* One run of a command on Monday 2024-03-04, the template T.md being one
\* of RegexDocs.
RegexInit ==
    /\ Configured(FolderSettings, {<<"T">>},
                  {d \in DailyNotesStates : d.enabled /\ d.folder # <<>> /\ d.template # <<>>},
                  {"en"}, {63})
    /\ VaultLoaded({{<<"T", ".md">>}}, RegexDocs)
    /\ Quiet

RegexSpec == RegexInit /\ [][CommandNext]_vars

\* The user creates files and moves between them, no command is run, for
\* every state of the daily-notes and templates plugins.
AutoInit ==
    /\ Configured({DEFAULT_SETTINGS.folder}, {DEFAULT_SETTINGS.template}, DailyNotesStates,
                  {"en"}, {63})
    /\ VaultLoaded(TemplateVaults, {PlainDoc})
    /\ Quiet

AutoNext ==
    \/ \E f \in UserCreations : UserCreate(f.path, f.content)
    \/ \E p \in DOMAIN files \cup {None} : UserNavigate(p)
    \/ \E t \in timers : FireInsert(t)

AutoSpec == AutoInit /\ [][AutoNext]_vars

FairAutoSpec == AutoSpec /\ WF_vars(Fire)

\* As Init, for every folder setting, with both T and T.md in the vault.
RaceInit ==
    /\ Configured(FolderSettings, {<<"T">>},
                  {d \in DailyNotesStates : d.enabled /\ d.folder # <<>> /\ d.template # <<>>},
                  {"en"}, {63})
    /\ VaultLoaded({{<<"T">>, <<"T", ".md">>}}, {TokenDoc})
    /\ Quiet

\* Overlapping invocations, with and without a folder to create.
RaceSpec == RaceInit /\ [][Next]_vars

\* As SeqInit on Monday 2024-03-04, the vault holding either no weekly note,
\* or a folder at the very path of this week's note (`file instanceof TFile`
\* is then false, src/main.ts:116).
OccupiedInit ==
    /\ Configured(FolderSettings, TemplateSettings,
                  {d \in DailyNotesStates : d.enabled /\ d.folder # <<>> /\ d.template # <<>>},
                  {"en"}, {63})
    /\ \E present \in TemplateVaults : files = [p \in present |-> TokenDoc]
    /\ LET path == normalizePath(settings.folder \o <<"/">>
                                     \o FormatText(today, locale, settings.dateFormat)
                                     \o <<".md">>)
       IN  folders \in {{<<"Daily">>},
                        ({<<"Daily">>, path} \cup {normalizePath(settings.folder)}) \ {Root}}
    /\ active = None
    /\ Quiet

OccupiedSpec == OccupiedInit /\ [][SeqNext]_vars

\* Weekly date formats, one of them also a daily-note format.
WeeklyFormats == {DEFAULT_SETTINGS.dateFormat, <<"YYYY-MM-DD">>}

\* The state after onload on Monday 2024-03-04 for every weekly format,
\* folder and template setting and every state of the daily-notes and
\* templates plugins.
TemplaterInit ==
    /\ settings \in [folder : FolderSettings, template : TemplateSettings,
                     dateFormat : WeeklyFormats]
    /\ dailyNotes \in DailyNotesStates
    /\ templates \in [enabled : BOOLEAN]
    /\ locale = "en"
    /\ today = 63
    /\ VaultLoaded(TemplateVaults, {PlainDoc})
    /\ Quiet

\* One run of a command, and the timers that it and the 'create' event of
\* its note set.
TemplaterNext ==
    \/ CommandNext
    \/ \E t \in timers : FireInsert(t)

TemplaterSpec == TemplaterInit /\ [][TemplaterNext]_vars

\* As Init for every folder setting, the vault holding at the template
\* path T a file, a folder or nothing, with or without the file T.md.
FolderTemplateInit ==
    /\ Configured(FolderSettings, {<<"T">>},
                  {d \in DailyNotesStates : d.enabled /\ d.folder # <<>> /\ d.template # <<>>},
                  {"en"}, {63})
    /\ \E present \in TemplateVaults, fs \in {{<<"Daily">>}, {<<"Daily">>, <<"T">>}} :
           /\ <<"T">> \in present => <<"T">> \notin fs
           /\ files = [p \in present |-> PlainDoc]
           /\ folders = fs
    /\ active = None
    /\ Quiet

FolderTemplateSpec == FolderTemplateInit /\ [][CommandNext]_vars

(***************************************************************************)
(* Properties.                                                             *)
(***************************************************************************)
\* Invocation c has taken a step.
Stepped(c) == call'[c] # call[c]

\* Invocation c found something at its path: it is past the lookup and has
\* not called vault.create.
FoundExisting(c) ==
    call[c].pc \in {"open", "insert", "read", "modify", "done"} /\ obs[c].create = 0

\* C1: when the command is run again and again for the same date, each run
\* after the previous one has completed, at most one vault.create succeeds
\* for the path, and every run after a successful create finds the file,
\* does not call vault.create and shows no 'Created weekly note' notice.
C1_SingleCreation ==
    \A c \in Calls :
        /\ Cardinality({b \in Calls : call[b].created /\ call[b].path = call[c].path}) <= 1
        /\ (\E b \in Calls : b < c /\ call[b].created) =>
               /\ call[c].pc \in {"idle", "open", "insert", "read", "modify", "done"}
               /\ ~call[c].created
               /\ obs[c].create = 0
               /\ obs[c].noticeCreated = 0

\* A second run has opened the note that the first run created.
C1_Witness ==
    /\ call[1].created /\ call[1].pc = "done"
    /\ call[2].pc = "done" /\ call[2].path = call[1].path
    /\ obs[2].openFile = 1 /\ obs[2].rejected = 0

\* C2: a step of an invocation that found its note already there changes no
\* file content and sets no timer, and such an invocation never inserts a
\* template, reads one, or calls vault.modify.
C2_ExistingNoteUntouched ==
    [][\A c \in Calls :
          (Stepped(c) /\ FoundExisting(c)') =>
              /\ files' = files
              /\ timers' = timers
              /\ obs'[c].insertTemplate = 0
              /\ obs'[c].read = 0
              /\ obs'[c].modify = 0
              /\ obs'[c].setTimeout = 0]_vars

\* With a template set, a run has opened a note that was there already, and
\* empty, and has completed.
C2_Witness ==
    \E c \in Calls :
        /\ call[c].pc = "done" /\ FoundExisting(c)
        /\ obs[c].openFile = 1 /\ obs[c].rejected = 0
        /\ settings.template # <<>>
        /\ call[c].path \in DOMAIN files /\ files[call[c].path] = <<>>

\* The rewrite timer t fires in this step.
Fires(t) == t \in timers /\ t \notin timers'

\* No token opener occurs in doc before position i.
FirstOpener(doc, i) == \A j \in 1..(i - 1) : doc[j] # "!{{"

\* The seven days of ISO week 2024-W10: Monday 2024-03-04 .. Sunday 2024-03-10.
IsoWeek10 == 63..69

MondayToken == <<"!{{", "monday", ":", "YYYY-MM-DD", "}", "}">>

\* C3: when the rewrite runs with an anchor date in ISO week 2024-W10, the
\* token !{{monday:YYYY-MM-DD}} in the active document becomes 2024-03-04.
C3_MondayOfIsoWeek ==
    [][\A t \in timers :
          (Fires(t) /\ t.kind = "rewrite" /\ t.date \in IsoWeek10 /\ HasMarkdownView(active)) =>
              \A i \in 1..Len(files[active]) :
                  (/\ i + 5 <= Len(files[active])
                   /\ SubSeq(files[active], i, i + 5) = MondayToken
                   /\ FirstOpener(files[active], i)) =>
                      files'[active][i] = "2024-03-04"]_vars

\* The weekday tokens of doc whose spec, trimmed, is daily-note.
DailyNoteTokens(doc) ==
    {i \in 1..Len(doc) :
        MatchEnd(doc, i) # 0 /\ trim(MatchFormat(doc, i, MatchEnd(doc, i))) = <<"daily-note">>}

\* The link the claim gives for targetDate.
ClaimedLink(targetDate) ==
    LET dailyFormat == IF dailyNotes.format # <<>> THEN dailyNotes.format
                       ELSE <<"YYYY-MM-DD">>
    IN  IF dailyNotes.enabled
        THEN IF dailyNotes.folder # <<>>
             THEN dailyNotes.folder \o <<"/">> \o FormatText(targetDate, locale, dailyFormat)
             ELSE FormatText(targetDate, locale, dailyFormat)
        ELSE FormatText(targetDate, locale, <<"YYYY-MM-DD">>)

\* C4: the rewrite replaces a daily-note token by folder/format(targetDate)
\* when the daily-notes plugin is enabled and has a folder, by
\* format(targetDate) when it is enabled without a folder, and by targetDate
\* as YYYY-MM-DD when it is disabled; for Friday of the week of 2024-03-04
\* that is Daily/2024-03-08, resp. 2024-03-08.
C4_DailyNoteLink ==
    [][\A t \in timers :
          (Fires(t) /\ t.kind = "rewrite" /\ HasMarkdownView(active)) =>
              \A i \in DailyNoteTokens(files[active]) :
                  FirstOpener(files[active], i) =>
                      LET dayIndex == indexOf(toLowerCase(files[active][i + 1]))
                          link     == ClaimedLink(SetDay(t.date, dayIndex))
                          new      == files'[active]
                      IN  /\ Len(new) >= i + Len(link) - 1
                          /\ SubSeq(new, i, i + Len(link) - 1) = link
                          /\ (dayIndex = 5 /\ t.date \in 63..68) =>
                                 /\ (dailyNotes.enabled /\ dailyNotes.folder = <<"Daily">>
                                        /\ dailyNotes.format = <<"YYYY-MM-DD">>)
                                        => SubSeq(new, i, i + 2) = <<"Daily", "/", "2024-03-08">>
                                 /\ ~dailyNotes.enabled => new[i] = "2024-03-08"]_vars

\* The rewrite has turned !{{Friday: daily-note}} into Daily/2024-03-08.
C4_Witness ==
    /\ call[1].pc = "done" /\ obs[1].setValue = 1
    /\ HasMarkdownView(active)
    /\ Len(files[active]) >= 3
    /\ SubSeq(files[active], 1, 3) = <<"Daily", "/", "2024-03-08">>

\* Neither the template path as written nor the path with ".md" is in the
\* vault.
TemplateMissing ==
    /\ getAbstractFileByPath(normalizePath(settings.template)) = "null"
    /\ getAbstractFileByPath(normalizePath(settings.template \o <<".md">>)) = "null"

\* Invocation c gets from leaf.openFile into applyTemplate in this step.
EntersApplyTemplate(c) ==
    /\ call[c].pc = "open" /\ Stepped(c) /\ obs'[c].rejected = obs[c].rejected
    /\ call[c].created /\ settings.template # <<>>

\* C7: applyTemplate takes the file at the template path as written if there
\* is one, else the one at the path with ".md" appended; if neither is in
\* the vault it shows 'Template file not found' once, changes no file, sets
\* no timer and calls neither insertTemplate nor vault.modify.  The notice is
\* shown in no other case.
C7_TemplateNotFound ==
    [][\A c \in Calls :
          /\ EntersApplyTemplate(c) =>
                /\ getAbstractFileByPath(normalizePath(settings.template)) = "file"
                       => call'[c].templateFile = normalizePath(settings.template)
                /\ (/\ getAbstractFileByPath(normalizePath(settings.template)) = "null"
                    /\ getAbstractFileByPath(normalizePath(settings.template \o <<".md">>)) = "file")
                       => call'[c].templateFile = normalizePath(settings.template \o <<".md">>)
                /\ TemplateMissing =>
                       /\ obs'[c].noticeNotFound = obs[c].noticeNotFound + 1
                       /\ call'[c].pc = "done"
                       /\ files' = files /\ files[call[c].path] = <<>>
                       /\ timers' = timers
                       /\ obs'[c].insertTemplate = 0 /\ obs'[c].read = 0
                       /\ obs'[c].modify = 0 /\ obs'[c].setTimeout = 0
          /\ ~(EntersApplyTemplate(c) /\ TemplateMissing) =>
                obs'[c].noticeNotFound = obs[c].noticeNotFound]_vars

\* A run has created the note, found no template, and completed with the
\* note empty.
C7_Witness ==
    /\ call[1].pc = "done" /\ call[1].created
    /\ obs[1].noticeNotFound = 1
    /\ files[call[1].path] = <<>>

\* doc holds a weekday token.
HasToken(doc) == \E i \in 1..Len(doc) : MatchEnd(doc, i) # 0

\* C8: a rewrite pass calls editor.setValue once if the active document
\* holds a weekday token, and then no token is left; it does not call it and
\* leaves every document as it is if there is no token or no markdown view.
C8_SingleEdit ==
    [][\A t \in timers :
          (Fires(t) /\ t.kind = "rewrite") =>
              IF HasMarkdownView(active) /\ HasToken(files[active])
              THEN /\ obs'[t.id].setValue = obs[t.id].setValue + 1
                   /\ ~HasToken(files'[active])
                   /\ \A p \in DOMAIN files : p # active => files'[p] = files[p]
              ELSE /\ obs'[t.id].setValue = obs[t.id].setValue
                   /\ files' = files]_vars

\* A pass has run over a note whose template held a token, with one edit.
C8_Witness ==
    /\ call[1].pc = "done" /\ obs[1].setTimeout = 1 /\ timers = {}
    /\ HasMarkdownView(active)
    /\ obs[1].setValue = 1
    /\ ~HasToken(files[active])

\* The reasons the claim gives for the auto-templater to stay out: the file
\* at p was created with content, or its name is no date in the daily-note
\* format, or a daily folder is set and the file is not directly in it.
StaysOut(p) ==
    \/ events[p].size > 0
    \/ ~isValidStrict(Basename(p), IF dailyNotes.format # <<>> THEN dailyNotes.format
                                   ELSE <<"YYYY-MM-DD">>)
    \/ dailyNotes.folder # <<>> /\ ParentPath(p) # normalizePath(dailyNotes.folder)

\* C5: for a 'create' event of a file that was created non-empty, or whose
\* name does not parse strictly in the daily-note format, or that is outside
\* the configured daily folder, onFileCreate sets no timer and insertTemplate
\* is never called.
C5_NoAutoTemplate ==
    \A p \in DOMAIN events :
        StaysOut(p) =>
            /\ events[p].scheduled = 0
            /\ events[p].inserts = 0
            /\ \A t \in timers : ~(t.kind = "insert" /\ t.note = p)

\* All is set for the auto-templater (plugins enabled, template there), and
\* the user has created a daily note with content in it.
C5_Witness ==
    /\ dailyNotes.enabled /\ templates.enabled
    /\ dailyNotes.format = <<"YYYY-MM-DD">> /\ dailyNotes.folder = <<"Daily">>
    /\ <<"T", ".md">> \in DOMAIN files
    /\ <<"Daily", "/", "2024-03-08", ".md">> \in DOMAIN events
    /\ events[<<"Daily", "/", "2024-03-08", ".md">>].size > 0

\* The paths the user may create files at.
UserPaths == {f.path : f \in UserCreations}

\* The daily-note template path is set and a file is at it or at it + ".md".
DailyTemplateThere ==
    /\ dailyNotes.template # <<>>
    /\ \/ getAbstractFileByPath(normalizePath(dailyNotes.template)) = "file"
       \/ getAbstractFileByPath(normalizePath(dailyNotes.template \o <<".md">>)) = "file"

\* The 'create' event of p is one the claim says is templated: an empty note
\* named by a date in the daily-note format, in the daily folder, the
\* template there and the templates plugin enabled.
Templated(p) ==
    /\ p \in DOMAIN events
    /\ Extension(p) = "md" /\ events[p].size = 0
    /\ isValidStrict(Basename(p), IF dailyNotes.format # <<>> THEN dailyNotes.format
                                  ELSE <<"YYYY-MM-DD">>)
    /\ ParentPath(p) = normalizePath(dailyNotes.folder)
    /\ DailyTemplateThere
    /\ templates.enabled

\* insertTemplate has been called once for the 'create' event of p.
InsertedOnce(p) == p \in DOMAIN events /\ events[p].inserts = 1

\* C6 as claimed: every such creation leads to exactly one call of
\* insertTemplate.
C6_AsClaimed ==
    /\ \A p \in UserPaths : Templated(p) ~> InsertedOnce(p)
    /\ [](\A p \in DOMAIN events : events[p].inserts <= 1)

\* C6, amended: every such creation made while the daily-notes plugin is
\* enabled leads to exactly one call of insertTemplate.
C6_AutoTemplateOnce ==
    /\ \A p \in UserPaths : (Templated(p) /\ dailyNotes.enabled) ~> InsertedOnce(p)
    /\ [](\A p \in DOMAIN events : events[p].inserts <= 1)

\* insertTemplate has been called for a daily note the user created.
C6_Witness ==
    \E p \in UserPaths : Templated(p) /\ dailyNotes.enabled /\ InsertedOnce(p)

\* C9: an invocation in which an awaited host operation rejected has shown
\* 'Failed to open weekly note' once and logged the error once, has completed
\* with its promise resolved, and does nothing more; no operation is
\* performed twice; no other invocation shows the notice, and no promise is
\* rejected.
C9_FailureCaught ==
    /\ [](\A c \in Calls :
            /\ obs[c].rejected > 0 =>
                   /\ obs[c].rejected = 1
                   /\ call[c].pc = "done"
                   /\ obs[c].noticeFailed = 1
                   /\ obs[c].errors = 1
            /\ obs[c].rejected = 0 => obs[c].noticeFailed = 0
            /\ call[c].result # "rejected"
            /\ call[c].pc = "done" => call[c].result = "resolved"
            /\ \A op \in {"create", "openFile", "insertTemplate", "read", "modify"} :
                   obs[c][op] <= 1)
    /\ [][\A c \in Calls :
             obs[c].rejected > 0 => call'[c] = call[c] /\ obs'[c] = obs[c]]_vars

\* An awaited host operation has rejected.
C9_Witness ==
    \E c \in Calls : obs[c].rejected = 1 /\ obs[c].noticeFailed = 1 /\ call[c].result = "resolved"

\* C10: when a rewrite timer fires, no document other than the note whose
\* creation set the timer changes.
C10_RewriteOnlyOwnNote ==
    [][\A t \in timers :
          (Fires(t) /\ t.kind = "rewrite") =>
              \A p \in DOMAIN files : p # t.note => files'[p] = files[p]]_vars

\* Invocation c looked its path up, found nothing, and its vault.create has
\* settled.
TriedCreate(c) == obs[c].create = 1

\* Invocation c has got into the template insertion of applyTemplate.
AppliesTemplate(c) ==
    call[c].pc \in {"insert", "read", "modify"}
        \/ obs[c].insertTemplate + obs[c].read + obs[c].modify > 0

\* Invocation c's vault.create is rejected in this step.
CreateIsRejected(c) ==
    call[c].pc = "create" /\ Stepped(c) /\ obs'[c].rejected = obs[c].rejected + 1

\* C11: of two invocations for the same path that both found no file and
\* both called vault.create, the host failing in no other way, exactly one
\* invocation for that path has created the note; per path at most one invocation creates, shows
\* 'Created weekly note' or applies the template; the invocation whose create
\* was rejected has completed through the catch block (one failure notice,
\* promise resolved) without opening or writing anything, and the step in
\* which its create is rejected leaves every file as it is.
C11_DuplicateCreate ==
    /\ [](\A a \in Calls, b \in Calls :
            (a # b /\ call[a].path = call[b].path) =>
                /\ (TriedCreate(a) /\ TriedCreate(b) /\ faults = 0) =>
                       Cardinality({c \in Calls : call[c].path = call[a].path
                                                     /\ call[c].created}) = 1
                /\ ~(call[a].created /\ call[b].created)
                /\ obs[a].noticeCreated + obs[b].noticeCreated <= 1
                /\ ~(AppliesTemplate(a) /\ AppliesTemplate(b))
                /\ (TriedCreate(a) /\ ~call[a].created) =>
                       /\ call[a].pc = "done" /\ call[a].result = "resolved"
                       /\ obs[a].noticeFailed = 1 /\ obs[a].errors = 1
                       /\ obs[a].openFile = 0 /\ obs[a].insertTemplate = 0
                       /\ obs[a].read = 0 /\ obs[a].modify = 0
                       /\ obs[a].setTimeout = 0 /\ obs[a].setValue = 0)
    /\ [][\A c \in Calls : CreateIsRejected(c) => files' = files /\ timers' = timers]_vars

\* Two invocations for one path both called vault.create; the first to call
\* it created the note, the other was rejected as a duplicate.
C11_Witness ==
    \E a \in Calls, b \in Calls :
        /\ a # b /\ call[a].path = call[b].path /\ faults = 0
        /\ TriedCreate(a) /\ call[a].created
        /\ TriedCreate(b) /\ ~call[b].created /\ call[b].pc = "done"
        /\ obs[b].noticeFailed = 1

\* p is the path of a markdown file in normal form: no "/" at either end and
\* no two in a row, ".md" last.
WellFormedNotePath(p) ==
    /\ Len(p) >= 2 /\ p[1] # "/" /\ p[Len(p)] = ".md" /\ p[Len(p) - 1] # "/"
    /\ \A i \in 1..(Len(p) - 1) : ~(p[i] = "/" /\ p[i + 1] = "/")

\* The path the claim gives for date D.
ClaimedPath(D) ==
    normalizePath(settings.folder \o <<"/">> \o FormatText(D, locale, settings.dateFormat)
                      \o <<".md">>)

\* C12: the path of an invocation for date D is
\* normalize(folder + "/" + format(D, dateFormat) + ".md"), a path in normal
\* form that stays the same through the invocation; a step of the invocation
\* adds no file but the one at that path, adds no folder but the configured
\* one (and none when the folder setting is empty), and brings no other file
\* to the active view.
C12_OnlyComputedPath ==
    /\ [](\A c \in Calls :
            call[c].pc # "idle" =>
                /\ call[c].path = ClaimedPath(call[c].date)
                /\ WellFormedNotePath(call[c].path)
                /\ call[c].created => call[c].path \in DOMAIN files)
    /\ [][\A c \in Calls :
             Stepped(c) =>
                 /\ call[c].pc # "idle" => call'[c].path = call[c].path
                 /\ (DOMAIN files') \ (DOMAIN files) \subseteq {call'[c].path}
                 /\ folders' \ folders \subseteq {normalizePath(settings.folder)} \ {Root}
                 /\ active' # active => active' = call'[c].path]_vars

\* An invocation has created the configured folder and, in it, the note, and
\* has opened the note.
C12_Witness ==
    \E c \in Calls :
        /\ call[c].pc = "done" /\ call[c].created
        /\ settings.folder # <<>>
        /\ obs[c].createFolder = 1 /\ obs[c].warnings = 0
        /\ ParentPath(call[c].path) = normalizePath(settings.folder)
        /\ active = call[c].path

\* Invocation c has completed and no host operation it awaited has rejected.
CompletedUnfailed(c) == call[c].pc = "done" /\ obs[c].rejected = 0

\* leaf.openFile settles for invocation c in this step, without rejecting.
Opens(c) ==
    call[c].pc = "open" /\ Stepped(c) /\ obs'[c].rejected = obs[c].rejected

\* The open comes first: an invocation that is inserting its template, has
\* inserted it, or has a rewrite scheduled, has opened the note.
OpenedBeforeTemplate(c) ==
    (\/ call[c].pc \in {"insert", "read", "modify"}
     \/ obs[c].insertTemplate + obs[c].read + obs[c].modify + obs[c].setTimeout > 0
     \/ \E t \in timers : t.kind = "rewrite" /\ t.id = c) => obs[c].openFile = 1

\* leaf.openFile brings the note to the active view, and the rest of the
\* invocation leaves the active view alone.
OpenShowsNote ==
    [][\A c \in Calls :
          /\ Opens(c) => active' = call[c].path /\ call[c].path \in DOMAIN files
          /\ (Stepped(c) /\ obs[c].openFile = 1) => active' = active]_vars

\* C13 as claimed: every invocation that completes without a host operation
\* failing has opened the entry at its path, the note being new or not, and
\* the open precedes template insertion and rewrite.
C13_AsClaimed ==
    \A c \in Calls :
        /\ CompletedUnfailed(c) => obs[c].openFile = 1 /\ call[c].path \in DOMAIN files
        /\ OpenedBeforeTemplate(c)

\* C13, amended: the same for every invocation whose path is not that of a
\* folder.
C13_OpenedFirst ==
    /\ [](\A c \in Calls :
            /\ (CompletedUnfailed(c) /\ getAbstractFileByPath(call[c].path) # "folder")
                   => obs[c].openFile = 1
            /\ OpenedBeforeTemplate(c))
    /\ OpenShowsNote

\* One invocation has created and opened the note and inserted the template,
\* and a later one has opened the same note again.
C13_Witness ==
    /\ CompletedUnfailed(1) /\ call[1].created /\ obs[1].openFile = 1
    /\ obs[1].insertTemplate + obs[1].modify = 1
    /\ CompletedUnfailed(2) /\ ~call[2].created /\ obs[2].openFile = 1
    /\ call[2].path = call[1].path /\ active = call[2].path

\* Invocation c was started by 'Open Next Week's Note'.
IsNextWeek(c) == call[c].pc # "idle" /\ call[c].date = today + 7

\* The weekday tokens of doc whose spec is a date format.
DateTokens(doc) ==
    {i \in 1..Len(doc) :
        /\ MatchEnd(doc, i) # 0
        /\ Len(MatchFormat(doc, i, MatchEnd(doc, i))) = 1
        /\ MatchFormat(doc, i, MatchEnd(doc, i))[1] \in DateFormats}

\* C14: a command passes today or the day one week after today; the
\* invocation of 'Open Next Week's Note' has the path computed from the day
\* one week after today, the rewrite it schedules carries that day, and when
\* the rewrite runs on the note a weekday token becomes the day one week
\* after the one it would be for this week's note.
C14_NextWeekAnchor ==
    /\ [](\A c \in Calls :
            /\ call[c].pc # "idle" => call[c].date \in {today, today + 7}
            /\ IsNextWeek(c) =>
                   /\ call[c].path =
                          normalizePath(settings.folder \o <<"/">>
                              \o FormatText(today + 7, locale, settings.dateFormat)
                              \o <<".md">>)
                   /\ \A t \in timers :
                          (t.kind = "rewrite" /\ t.id = c) => t.date = today + 7)
    /\ [][\A t \in timers :
             (Fires(t) /\ t.kind = "rewrite" /\ IsNextWeek(t.id) /\ active = call[t.id].path) =>
                 \A i \in DateTokens(files[active]) :
                     FirstOpener(files[active], i) =>
                         LET dayIndex == indexOf(toLowerCase(files[active][i + 1]))
                             format   == MatchFormat(files[active], i, MatchEnd(files[active], i))
                         IN  /\ files'[active][i] =
                                    FormatText(SetDay(today, dayIndex) + 7, locale, format)[1]
                             /\ format = <<"YYYY-MM-DD">> =>
                                    files'[active][i] #
                                        FormatText(SetDay(today, dayIndex), locale, format)[1]]_vars

\* On Monday 2024-03-04 the next-week command has made its note, and the
\* rewrite has put 2024-03-11 for !{{monday:YYYY-MM-DD}}.
C14_Witness ==
    /\ today = 63 /\ IsNextWeek(1) /\ call[1].pc = "done"
    /\ obs[1].setValue = 1 /\ timers = {}
    /\ active = call[1].path
    /\ files[active] # <<>> /\ files[active][1] = "2024-03-11"

\* C15: for a scheduled rewrite and each weekday index 0..6, the target date
\* date.clone().day(index) falls on that weekday and, formatted with the
\* weekly dateFormat, gives the file name of the note being opened.
C15_SameLocalizedWeek ==
    \A t \in timers :
        t.kind = "rewrite" =>
            \A dayIndex \in 0..6 :
                LET targetDate == SetDay(t.date, dayIndex)
                IN  /\ DayOfWeek(targetDate) = dayIndex
                    /\ FormatText(targetDate, locale, settings.dateFormat) = call[t.id].filename

\* C16: with the same template path set for weekly and for daily notes, the
\* file whose insertion onFileCreate has scheduled is the file applyTemplate
\* has settled on.
C16_SameTemplateFile ==
    \A t \in timers, c \in Calls :
        (/\ t.kind = "insert"
         /\ call[c].templateFile # None
         /\ dailyNotes.template = settings.template) => t.template = call[c].templateFile

\* The notices and error logs of invocation c.
Notices(o) == <<o.noticeCreated, o.noticeNotFound, o.noticeRaw, o.noticeFailed, o.errors>>

\* C17: vault.createFolder is called only when the note is absent and the
\* configured folder is neither empty/root nor in the vault, and at most once;
\* when it settles, rejected or not, the invocation shows no notice, logs no
\* error, counts no rejection and goes on to vault.create; a rejection (the
\* folder set unchanged) is logged with one console.warn.
C17_FolderFailureBenign ==
    /\ [](\A c \in Calls :
            /\ obs[c].createFolder <= 1
            /\ (call[c].pc = "folder" \/ obs[c].createFolder = 1) =>
                   normalizePath(settings.folder) # Root)
    /\ [][\A c \in Calls :
             /\ (call[c].pc = "idle" /\ Stepped(c)) =>
                    (call'[c].pc = "folder" <=>
                        /\ getAbstractFileByPath(call'[c].path) = "null"
                        /\ normalizePath(settings.folder) # Root
                        /\ getAbstractFileByPath(normalizePath(settings.folder)) = "null")
             /\ (call[c].pc = "idle" /\ Stepped(c)
                     /\ getAbstractFileByPath(call'[c].path) = "null") =>
                    call'[c].pc \in {"folder", "create"}
             /\ (call[c].pc = "folder" /\ Stepped(c)) =>
                    /\ call'[c].pc = "create"
                    /\ Notices(obs'[c]) = Notices(obs[c])
                    /\ obs'[c].rejected = obs[c].rejected
                    /\ obs'[c].createFolder = obs[c].createFolder + 1
                    /\ obs'[c].warnings =
                           obs[c].warnings + (IF folders' = folders THEN 1 ELSE 0)]_vars

\* An invocation's createFolder was rejected because an overlapping invocation
\* had created the folder; it went on and created the note.
C17_Witness ==
    \E c \in Calls :
        /\ obs[c].createFolder = 1 /\ obs[c].warnings = 1 /\ faults = 0
        /\ call[c].created /\ obs[c].noticeFailed = 0

\* C18: no rejection escapes a handler of the plugin: no promise returned by
\* openWeeklyNote is rejected, and no timer callback ends in a rejection that
\* nothing handles.
C18_NothingEscapes ==
    /\ ~unhandled
    /\ \A c \in Calls : call[c].result # "rejected"

\* Invocation c has a rewrite pending.
RewritePending(c) == \E t \in timers : t.kind = "rewrite" /\ t.id = c

\* The rewrite that invocation c scheduled has run.
RewriteRan(c) == obs[c].setTimeout = 1 /\ ~RewritePending(c)

\* The insertion call of invocation c (insertTemplate or vault.modify) has
\* returned without rejecting.
InsertionReturned(c) == obs[c].insertTemplate + obs[c].modify = 1 /\ obs[c].rejected = 0

\* What holds at all times of the rewrite that applyTemplate schedules: at
\* most one per invocation, one when the invocation has completed unfailed
\* with a template file, and none scheduled, pending or run before the
\* insertion call has returned.
RewriteScheduledOnce ==
    [](\A c \in Calls :
          /\ obs[c].setTimeout <= 1
          /\ Cardinality({t \in timers : t.kind = "rewrite" /\ t.id = c}) <= 1
          /\ (CompletedUnfailed(c) /\ call[c].templateFile # None) => obs[c].setTimeout = 1
          /\ (obs[c].setTimeout = 1 \/ RewritePending(c) \/ obs[c].setValue > 0) =>
                 /\ InsertionReturned(c)
                 /\ call[c].created /\ call[c].templateFile # None
                 /\ call[c].pc = "done")

ClaimedToken(doc, i) ==
    /\ i + 5 <= Len(doc)
    /\ doc[i] = "!{{"
    /\ \E k \in 1..7 : toLowerCase(doc[i + 1]) = days[k]
    /\ doc[i + 2] = ":"
    /\ \E j \in (i + 4)..(Len(doc) - 1) :
           /\ \A k \in (i + 3)..(j - 1) : doc[k] # "}"
           /\ doc[j] = "}" /\ doc[j + 1] = "}"

\* C20: a rewrite pass changes nothing in a document that holds no token of
\* the claimed shape (a token with an empty spec among them), and in any
\* document leaves the text before the first token opener as it is.
C20_TokenShape ==
    [][\A t \in timers :
          (Fires(t) /\ t.kind = "rewrite" /\ HasMarkdownView(active)) =>
              /\ (\A i \in 1..Len(files[active]) : ~ClaimedToken(files[active], i)) =>
                     files' = files /\ obs'[t.id].setValue = obs[t.id].setValue
              /\ \A i \in 1..Len(files[active]) :
                     FirstOpener(files[active], i + 1) =>
                         /\ Len(files'[active]) >= i
                         /\ files'[active][i] = files[active][i]]_vars

\* The number of template insertions that invocation c has caused: its own
\* (insertTemplate or raw copy) and those of the auto-templater for the
\* 'create' event of its note.
Insertions(c) ==
    obs[c].insertTemplate + obs[c].modify
        + (IF call[c].path \in DOMAIN events /\ events[call[c].path].by = c
           THEN events[call[c].path].inserts ELSE 0)

\* The 'create' event of the note of invocation c has set the auto-templater's
\* timer.
AutoTemplated(c) ==
    call[c].path \in DOMAIN events /\ events[call[c].path].by = c
        /\ events[call[c].path].scheduled > 0

\* The weekly note of invocation c passes for a daily note: its name is a
\* date in the daily-note format, and no daily folder is set or the note is
\* directly in it.
PassesForDailyNote(c) ==
    LET dailyFormat == IF dailyNotes.format # <<>> THEN dailyNotes.format
                       ELSE <<"YYYY-MM-DD">>
    IN  /\ \E d \in ParseDates : FormatText(d, locale, dailyFormat) = call[c].filename
        /\ dailyNotes.folder = <<>>
               \/ ParentPath(call[c].path) = normalizePath(dailyNotes.folder)

ThroughApplyTemplate(c) ==
    call[c].created /\ settings.template # <<>> /\ CompletedUnfailed(c)

\* Template content was applied to the note of invocation c, with
\* insertTemplate or as a raw copy.
TemplateApplied(c) == obs[c].insertTemplate + obs[c].modify = 1

\* C22: an invocation that has got through applyTemplate has either applied
\* template content to the note or shown 'Template file not found' once, and
\* not both.
C22_AppliedOrNotFound ==
    \A c \in Calls :
        ThroughApplyTemplate(c) =>
            /\ TemplateApplied(c) \/ obs[c].noticeNotFound = 1
            /\ ~(TemplateApplied(c) /\ obs[c].noticeNotFound > 0)

====
